---- MODULE Spec2Model ----
(***************************************************************************)
(* The frame-update orchestrator of libswc/compositor.c: update            *)
(* scheduling, damage calculation, per-output repaint, page-flip           *)
(* completion and the VT/DRM master coupling.                              *)
(*                                                                         *)
(* Output bitmasks (scheduled_updates, pending_flips, updates) are sets of *)
(* output ids: bit SWC_OUTPUT_MASK(o) is set iff o is in the set.          *)
(* A pixman region is the set of the integer points <<x, y>> it covers.    *)
(***************************************************************************)
EXTENDS Integers, Sequences, FiniteSets, TLC

\* Bounds of the model.
NumOutputs == 2
NumSurfaces == 2
MaxIdle == 2
MaxTime == 2
MaxBindings == 1
MaxReads == 3

Outputs == 1..NumOutputs
SurfaceIds == 1..NumSurfaces
Times == 1..MaxTime

(***************************************************************************)
(* Region algebra: the pixman_region32 operations the code uses.           *)
(***************************************************************************)
region_rect(x, y, width, height) ==
    {<<i, j>> : i \in x..(x + width - 1), j \in y..(y + height - 1)}

region_extents(box) ==
    {<<i, j>> : i \in box.x1..(box.x2 - 1), j \in box.y1..(box.y2 - 1)}

region_translate(region, dx, dy) == {<<p[1] + dx, p[2] + dy>> : p \in region}

geometry_rect(g) == region_rect(g.x, g.y, g.width, g.height)

(***************************************************************************)
(* The outputs and surfaces the runs start from.  Output o is two columns  *)
(* wide; the stride between neighbouring outputs is 2 (side by side) or 1  *)
(* (neighbours share a column).  Surface s is a 2x1 window at column s;    *)
(* odd surfaces are fully opaque, even ones have no opaque region.  The    *)
(* extents of a surface add a border of one column on each side.           *)
(***************************************************************************)
OutputStrides == {1, 2}

output_geometry(o, stride) ==
    [x |-> (o - 1) * stride, y |-> 0, width |-> 2, height |-> 1]

surface_geometry(s) == [x |-> s, y |-> 0, width |-> 2, height |-> 1]

surface_full(s) == region_rect(0, 0, surface_geometry(s).width,
                                     surface_geometry(s).height)

surface_extents(s) ==
    [x1 |-> surface_geometry(s).x - 1, y1 |-> 0,
     x2 |-> surface_geometry(s).x + surface_geometry(s).width + 1, y2 |-> 1]

surface_new(s) ==
    [geometry |-> surface_geometry(s),
     damage |-> {},
     opaque |-> IF s % 2 = 1 THEN surface_full(s) ELSE {},
     clip |-> {},
     extents |-> surface_extents(s),
     border_damaged |-> FALSE]

VARIABLES
    compositor,       \* [scheduled_updates, pending_flips, damage, opaque]
    outputs,          \* output id -> [geometry, previous_damage]
    surfaces,         \* compositor->surfaces: surface ids, topmost first
    surface,          \* surface id -> its regions and class state
    idle,             \* perform_update tasks on the event loop's idle queue
    master,           \* the DRM master is held (the VT is active)
    inflight,         \* outputs whose plane has a flip submitted, not completed
    repaints,         \* renderer repaints and plane flips of the last step
    frame_callbacks,  \* frame callbacks sent by the last step
    last,             \* the last event dispatched
    prev,             \* the event dispatched before it
    key_bindings,     \* compositor->key_bindings, in insertion order
    key_handled,      \* what the last handle_key returned and called
    device,           \* the evdev device: motion.rel = [dx, dy, pending]
    kernel,           \* the reads libevdev_next_event has ready on the fd
    dispatched,       \* the last handle_data: its reads, callbacks and trace
    startup           \* the call of swc_compositor_initialize and its outcome

\* The state of the frame-update side, which the input handlers leave alone.
frame_vars == <<compositor, outputs, surfaces, surface, idle, master, inflight,
                repaints, frame_callbacks, last, prev>>

\* The state of the input side, which the frame-update handlers leave alone.
input_vars == <<key_bindings, key_handled, device, kernel, dispatched,
                startup>>

seat_vars == <<key_bindings, key_handled>>

evdev_vars == <<device, kernel, dispatched>>

vars == <<frame_vars, input_vars>>

NoEvent == [op |-> "none", arg |-> 0, time |-> 0]
Event(op, arg, time) == [op |-> op, arg |-> arg, time |-> time]

(***************************************************************************)
(* swc_plane_flip: the flip is submitted iff the DRM master is held, the   *)
(* plane has no flip in flight and the hardware accepts it.                *)
(***************************************************************************)
swc_plane_flip(output, m, flying, accept) ==
    m /\ output \notin flying /\ output \in accept

(***************************************************************************)
(* calculate_damage                                                        *)
(***************************************************************************)
\* The loop of calculate_damage copying the clip after the union, so that a
\* surface is clipped by its own opaque region too.
RECURSIVE calculate_damage_from_own(_, _, _, _)
calculate_damage_from_own(i, c, list, surf) ==
    IF i > Len(list)
    THEN [compositor |-> c, surface |-> surf]
    ELSE LET id == list[i]
             s == surf[id]
             surface_opaque ==
                 region_translate(s.opaque, s.geometry.x, s.geometry.y)
             c2 == [c EXCEPT !.opaque = c.opaque \cup surface_opaque]
             s2 == [s EXCEPT !.clip = c2.opaque,
                             !.damage = {},
                             !.border_damaged = FALSE]
         IN  calculate_damage_from_own(i + 1, c2, list,
                                       [surf EXCEPT ![id] = s2])

RECURSIVE calculate_damage_from(_, _, _, _)
calculate_damage_from(i, c, list, surf) ==
    IF i > Len(list)
    THEN [compositor |-> c, surface |-> surf]
    ELSE LET id == list[i]
             s == surf[id]
             surface_opaque ==
                 region_translate(s.opaque, s.geometry.x, s.geometry.y)
             surface_damage ==
                 region_translate(s.damage, s.geometry.x, s.geometry.y)
             border_region ==
                 region_extents(s.extents) \ geometry_rect(s.geometry)
             damage1 == IF s.damage # {} THEN c.damage \cup surface_damage
                                         ELSE c.damage
             damage2 == IF s.border_damaged THEN damage1 \cup border_region
                                            ELSE damage1
             c2 == [c EXCEPT !.opaque = c.opaque \cup surface_opaque,
                             !.damage = damage2]
             s2 == [s EXCEPT !.clip = c.opaque,
                             !.damage = {},
                             !.border_damaged = FALSE]
         IN  calculate_damage_from(i + 1, c2, list, [surf EXCEPT ![id] = s2])

\* calculate_damage accumulating onto the opaque region of the last frame.
calculate_damage_stale(c, list, surf) ==
    calculate_damage_from(1, c, list, surf)

calculate_damage(c, list, surf) ==
    calculate_damage_from(1, [c EXCEPT !.opaque = {}], list, surf)

(***************************************************************************)
(* repaint_output: `flipped` is the result of swc_plane_flip, which the    *)
(* code only logs.  The renderer call and the flip are recorded in `call`. *)
(***************************************************************************)
\* repaint_output subtracting only the base damage from compositor->damage.
repaint_output_base(c, output, out, flipped) ==
    LET damage == c.damage \cap geometry_rect(out.geometry)
        total == damage \cup out.previous_damage
        base_damage == total \ c.opaque
    IN  [compositor |-> [c EXCEPT !.damage = c.damage \ base_damage],
         output |-> [out EXCEPT !.previous_damage = damage],
         call |-> [output |-> output, damage |-> total, base |-> base_damage,
                   flipped |-> flipped]]

repaint_output(c, output, out, flipped) ==
    LET damage == c.damage \cap geometry_rect(out.geometry)
        previous_damage == out.previous_damage
        total == damage \cup previous_damage
        base_damage == total \ c.opaque
    IN  [compositor |-> [c EXCEPT !.damage = c.damage \ total],
         output |-> [out EXCEPT !.previous_damage = damage],
         call |-> [output |-> output, damage |-> total, base |-> base_damage,
                   flipped |-> flipped]]

\* The loop of perform_update over compositor->outputs, in list order.
RECURSIVE repaint_outputs(_, _, _, _, _, _, _, _)
repaint_outputs(o, updates, c, outs, m, flying, accept, calls) ==
    IF o > NumOutputs
    THEN [compositor |-> c, outputs |-> outs, calls |-> calls]
    ELSE IF o \in updates
         THEN LET r == repaint_output(c, o, outs[o],
                                      swc_plane_flip(o, m, flying, accept))
              IN  repaint_outputs(o + 1, updates, r.compositor,
                                  [outs EXCEPT ![o] = r.output], m, flying,
                                  accept, Append(calls, r.call))
         ELSE repaint_outputs(o + 1, updates, c, outs, m, flying, accept,
                              calls)

(***************************************************************************)
(* perform_update                                                          *)
(***************************************************************************)
\* perform_update servicing every scheduled output, flip in flight or not.
perform_update_all(c, outs, list, surf, m, flying, accept) ==
    LET updates == c.scheduled_updates
    IN  IF updates # {}
        THEN LET cd == calculate_damage(c, list, surf)
                 rp == repaint_outputs(1, updates, cd.compositor, outs, m,
                                       flying, accept, <<>>)
             IN  [compositor |->
                      [rp.compositor EXCEPT
                           !.pending_flips = c.pending_flips \cup updates,
                           !.scheduled_updates = c.scheduled_updates \ updates],
                  outputs |-> rp.outputs,
                  surface |-> cd.surface,
                  calls |-> rp.calls]
        ELSE [compositor |-> c, outputs |-> outs, surface |-> surf,
              calls |-> <<>>]

perform_update(c, outs, list, surf, m, flying, accept) ==
    LET updates == c.scheduled_updates \ c.pending_flips
    IN  IF updates # {}
        THEN LET cd == calculate_damage(c, list, surf)
                 rp == repaint_outputs(1, updates, cd.compositor, outs, m,
                                       flying, accept, <<>>)
             IN  [compositor |->
                      [rp.compositor EXCEPT
                           !.pending_flips = c.pending_flips \cup updates,
                           !.scheduled_updates = c.scheduled_updates \ updates],
                  outputs |-> rp.outputs,
                  surface |-> cd.surface,
                  calls |-> rp.calls]
        ELSE [compositor |-> c, outputs |-> outs, surface |-> surf,
              calls |-> <<>>]

(***************************************************************************)
(* handle_tty_event                                                        *)
(***************************************************************************)
\* handle_tty_event forgetting the flips in flight when the VT is left.
handle_tty_event_forget(c, m, type) ==
    [compositor |-> IF type = "VT_LEAVE" THEN [c EXCEPT !.pending_flips = {}]
                                         ELSE c,
     master |-> CASE type = "VT_ENTER" -> TRUE
                  [] type = "VT_LEAVE" -> FALSE
                  [] OTHER -> m]

handle_tty_event(c, m, type) ==
    [compositor |-> c,
     master |-> CASE type = "VT_ENTER" -> TRUE
                  [] type = "VT_LEAVE" -> FALSE
                  [] OTHER -> m]

(***************************************************************************)
(* handle_drm_event, case SWC_DRM_PAGE_FLIP                                *)
(***************************************************************************)
\* The calls a handler makes to its collaborators, in the order it makes them.
frame_effects(sent) ==
    [i \in 1..Len(sent) |-> [kind |-> "send_frame_callbacks",
                             arg |-> sent[i].surface]]

flip_effects(calls) ==
    [i \in 1..Len(calls) |-> [kind |-> "plane_flip", arg |-> calls[i].output]]

\* handle_drm_event running the scheduled updates before it tests
\* pending_flips for the frame callbacks.
handle_drm_event_late(c, outs, list, surf, m, flying, accept, output, time) ==
    LET c1 == [c EXCEPT !.pending_flips = c.pending_flips \ {output}]
        pu == IF c1.scheduled_updates # {}
              THEN perform_update(c1, outs, list, surf, m, flying, accept)
              ELSE [compositor |-> c1, outputs |-> outs, surface |-> surf,
                    calls |-> <<>>]
        sent == IF pu.compositor.pending_flips = {}
                THEN [i \in 1..Len(list) |->
                          [surface |-> list[i], time |-> time]]
                ELSE <<>>
    IN  [compositor |-> pu.compositor, outputs |-> pu.outputs,
         surface |-> pu.surface, calls |-> pu.calls,
         frame_callbacks |-> sent,
         effects |-> flip_effects(pu.calls) \o frame_effects(sent)]

\* handle_drm_event leaving the scheduled updates to the idle queue.
handle_drm_event_norerun(c, outs, list, surf, m, flying, accept, output, time) ==
    LET c1 == [c EXCEPT !.pending_flips = c.pending_flips \ {output}]
        sent == IF c1.pending_flips = {}
                THEN [i \in 1..Len(list) |->
                          [surface |-> list[i], time |-> time]]
                ELSE <<>>
    IN  [compositor |-> c1, outputs |-> outs, surface |-> surf,
         calls |-> <<>>, frame_callbacks |-> sent,
         effects |-> frame_effects(sent)]

\* handle_drm_event sending the frame callbacks on every flip completion.
handle_drm_event_every(c, outs, list, surf, m, flying, accept, output, time) ==
    LET c1 == [c EXCEPT !.pending_flips = c.pending_flips \ {output}]
        sent == [i \in 1..Len(list) |-> [surface |-> list[i], time |-> time]]
        pu == IF c1.scheduled_updates # {}
              THEN perform_update(c1, outs, list, surf, m, flying, accept)
              ELSE [compositor |-> c1, outputs |-> outs, surface |-> surf,
                    calls |-> <<>>]
    IN  [compositor |-> pu.compositor, outputs |-> pu.outputs,
         surface |-> pu.surface, calls |-> pu.calls,
         frame_callbacks |-> sent,
         effects |-> frame_effects(sent) \o flip_effects(pu.calls)]

handle_drm_event(c, outs, list, surf, m, flying, accept, output, time) ==
    LET c1 == [c EXCEPT !.pending_flips = c.pending_flips \ {output}]
        sent == IF c1.pending_flips = {}
                THEN [i \in 1..Len(list) |->
                          [surface |-> list[i], time |-> time]]
                ELSE <<>>
        pu == IF c1.scheduled_updates # {}
              THEN perform_update(c1, outs, list, surf, m, flying, accept)
              ELSE [compositor |-> c1, outputs |-> outs, surface |-> surf,
                    calls |-> <<>>]
    IN  [compositor |-> pu.compositor, outputs |-> pu.outputs,
         surface |-> pu.surface, calls |-> pu.calls,
         frame_callbacks |-> sent,
         effects |-> frame_effects(sent) \o flip_effects(pu.calls)]

(***************************************************************************)
(* Key bindings.  A modifier set of a binding is a set of SWC_MOD_* names; *)
(* SWC_MOD_ANY is the sentinel that no computed modifier set equals.  An   *)
(* xkb modifier mask is the set of the xkb modifier names whose bit is     *)
(* set; the keyboard also has modifiers (Lock) the seat keeps no index of.  *)
(***************************************************************************)
SWC_MOD_ANY == {"ANY"}

XkbMods == {"ctrl", "alt", "super", "shift", "lock"}

Keysyms == {"BackSpace", "XF86Switch_VT_1", "a"}

BindingModifiers ==
    {SWC_MOD_ANY, {}, {"CTRL"}, {"CTRL", "ALT"}, {"SHIFT"}, {"LOGO"}}

swc_compositor_add_key_binding(bindings, modifiers, value, handler) ==
    Append(bindings,
           [value |-> value, modifiers |-> modifiers, handler |-> handler])

\* The bindings swc_compositor_initialize installs: terminate, and the VT
\* switch keys (one of the twelve is kept).
builtin_key_bindings ==
    swc_compositor_add_key_binding(
        swc_compositor_add_key_binding(<<>>, {"CTRL", "ALT"}, "BackSpace",
                                       "handle_terminate"),
        SWC_MOD_ANY, "XF86Switch_VT_1", "handle_switch_vt")

xkb_state_mod_mask_remove_consumed(mod_mask, consumed) == mod_mask \ consumed

\* handle_key scanning with the effective mask, consumed modifiers included.
handle_key_effective(bindings, time, keysym, effective, consumed, state) ==
    LET modifiers ==
            (IF "ctrl" \in effective THEN {"CTRL"} ELSE {})
                \cup (IF "alt" \in effective THEN {"ALT"} ELSE {})
                \cup (IF "super" \in effective THEN {"LOGO"} ELSE {})
                \cup (IF "shift" \in effective THEN {"SHIFT"} ELSE {})
        hit == {i \in 1..Len(bindings) :
                    /\ bindings[i].value = keysym
                    /\ \/ bindings[i].modifiers = SWC_MOD_ANY
                       \/ bindings[i].modifiers = modifiers}
    IN  IF state = "PRESSED" /\ hit # {}
        THEN [swallowed |-> TRUE,
              calls |-> <<[binding |-> CHOOSE i \in hit : \A j \in hit : i <= j,
                           time |-> time, value |-> keysym]>>]
        ELSE [swallowed |-> FALSE, calls |-> <<>>]

\* The loop of handle_key over compositor->key_bindings from binding i on.
RECURSIVE handle_key_from(_, _, _, _, _, _)
handle_key_from(i, bindings, time, keysym, effective, consumed) ==
    IF i > Len(bindings)
    THEN [swallowed |-> FALSE, calls |-> <<>>]
    ELSE LET binding == bindings[i]
             mod_mask == xkb_state_mod_mask_remove_consumed(effective,
                                                            consumed)
             modifiers ==
                 (IF "ctrl" \in mod_mask THEN {"CTRL"} ELSE {})
                     \cup (IF "alt" \in mod_mask THEN {"ALT"} ELSE {})
                     \cup (IF "super" \in mod_mask THEN {"LOGO"} ELSE {})
                     \cup (IF "shift" \in mod_mask THEN {"SHIFT"} ELSE {})
         IN  IF /\ binding.value = keysym
                /\ \/ binding.modifiers = SWC_MOD_ANY
                   \/ binding.modifiers = modifiers
             THEN [swallowed |-> TRUE,
                   calls |-> <<[binding |-> i, time |-> time,
                                value |-> keysym]>>]
             ELSE handle_key_from(i + 1, bindings, time, keysym, effective,
                                  consumed)

handle_key(bindings, time, keysym, effective, consumed, state) ==
    IF state = "PRESSED"
    THEN handle_key_from(1, bindings, time, keysym, effective, consumed)
    ELSE [swallowed |-> FALSE, calls |-> <<>>]

(***************************************************************************)
(* The evdev device (evdev_device.c).  A uint32_t is the record of its two *)
(* 16-bit halves; a timeval is [sec, usec]; an input_event is              *)
(* [type, code, value, time].                                              *)
(***************************************************************************)
EV_SYN == 0
EV_KEY == 1
EV_REL == 2
EV_ABS == 3
EV_MSC == 4
SYN_REPORT == 0
SYN_DROPPED == 3
REL_X == 0
REL_Y == 1
REL_HWHEEL == 6
REL_DIAL == 7
REL_WHEEL == 8
ABS_X == 0
ABS_Y == 1
KEY_A == 30
BTN_MISC == 256
BTN_LEFT == 272
BTN_GEAR_UP == 337
BTN_TRIGGER_HAPPY == 704
AXIS_STEP_DISTANCE == 10
WL_POINTER_AXIS_VERTICAL_SCROLL == 0
WL_POINTER_AXIS_HORIZONTAL_SCROLL == 1

\* The conversion of an int to uint32_t, and of a uint32_t to int32_t.
to_uint32(x) == [hi |-> (x \div 65536) % 65536, lo |-> x % 65536]

to_int32(u) ==
    (IF u.hi >= 32768 THEN u.hi - 65536 ELSE u.hi) * 65536 + u.lo

wl_fixed_from_int(i) == to_int32(to_uint32(i * 256))

\* tv_sec * 1000 + tv_usec / 1000, truncated to uint32_t.
timeval_to_msec(time) ==
    LET low == (time.sec % 65536) * 1000 + time.usec \div 1000
        high == (time.sec \div 65536) * 1000 + low \div 65536
    IN  [hi |-> high % 65536, lo |-> low % 65536]

\* A call of a device handler callback, made while processing read `read`.
Callback(op, time, arg1, arg2, read) ==
    [op |-> op, time |-> time, arg1 |-> arg1, arg2 |-> arg2, read |-> read]

swc_evdev_device_new == [dx |-> 0, dy |-> 0, pending |-> FALSE]

NoDispatch == [reads |-> <<>>, calls |-> <<>>, trace |-> <<>>]

handle_key_event(input_event, read) ==
    LET time == timeval_to_msec(input_event.time)
        state == IF input_event.value # 0 THEN "PRESSED" ELSE "RELEASED"
    IN  IF \/ /\ input_event.code >= BTN_MISC
              /\ input_event.code <= BTN_GEAR_UP
           \/ input_event.code >= BTN_TRIGGER_HAPPY
        THEN <<Callback("button", time, input_event.code, state, read)>>
        ELSE <<Callback("key", time, input_event.code, state, read)>>

\* handle_rel_event keeping the sign of the wheel value.
handle_rel_event_plain(dev, input_event, garbage, read) ==
    LET time == timeval_to_msec(input_event.time)
        code == input_event.code
        amount == to_uint32(AXIS_STEP_DISTANCE
                                * wl_fixed_from_int(input_event.value))
    IN  IF code = REL_X
        THEN [device |-> [dev EXCEPT !.dx = dev.dx + input_event.value,
                                     !.pending = TRUE],
              calls |-> <<>>]
        ELSE IF code = REL_Y
        THEN [device |-> [dev EXCEPT !.dy = dev.dy + input_event.value,
                                     !.pending = TRUE],
              calls |-> <<>>]
        ELSE IF code = REL_WHEEL
        THEN [device |-> dev,
              calls |-> <<Callback("axis", time,
                                   WL_POINTER_AXIS_VERTICAL_SCROLL,
                                   to_int32(amount), read)>>]
        ELSE IF code = REL_HWHEEL
        THEN [device |-> dev,
              calls |-> <<Callback("axis", time,
                                   WL_POINTER_AXIS_HORIZONTAL_SCROLL,
                                   to_int32(amount), read)>>]
        ELSE [device |-> dev,
              calls |-> <<Callback("axis", time, garbage.axis,
                                   to_int32(garbage.amount), read)>>]

\* `garbage` is what the uninitialized axis and amount hold when the code is
\* none of the four the switch names.
handle_rel_event(dev, input_event, garbage, read) ==
    LET time == timeval_to_msec(input_event.time)
        code == input_event.code
    IN  IF code = REL_X
        THEN [device |-> [dev EXCEPT !.dx = dev.dx + input_event.value,
                                     !.pending = TRUE],
              calls |-> <<>>]
        ELSE IF code = REL_Y
        THEN [device |-> [dev EXCEPT !.dy = dev.dy + input_event.value,
                                     !.pending = TRUE],
              calls |-> <<>>]
        ELSE LET axis == IF code = REL_WHEEL
                         THEN WL_POINTER_AXIS_VERTICAL_SCROLL
                         ELSE IF code = REL_HWHEEL
                         THEN WL_POINTER_AXIS_HORIZONTAL_SCROLL
                         ELSE garbage.axis
                 amount == IF code = REL_WHEEL
                           THEN to_uint32((0 - AXIS_STEP_DISTANCE)
                                    * wl_fixed_from_int(input_event.value))
                           ELSE IF code = REL_HWHEEL
                           THEN to_uint32(AXIS_STEP_DISTANCE
                                    * wl_fixed_from_int(input_event.value))
                           ELSE garbage.amount
             IN  [device |-> dev,
                  calls |-> <<Callback("axis", time, axis, to_int32(amount),
                                       read)>>]

\* handle_abs_event has an empty body.
handle_abs_event(dev, input_event) == [device |-> dev, calls |-> <<>>]

is_motion_event(event) ==
    \/ event.type = EV_REL /\ (event.code = REL_X \/ event.code = REL_Y)
    \/ event.type = EV_ABS /\ (event.code = ABS_X \/ event.code = ABS_Y)

\* handle_motion_events leaving the accumulated deltas in place.
handle_motion_events_keep(dev, time, read) ==
    IF dev.pending
    THEN [device |-> [dev EXCEPT !.pending = FALSE],
          calls |-> <<Callback("relative_motion", time,
                               wl_fixed_from_int(dev.dx),
                               wl_fixed_from_int(dev.dy), read)>>]
    ELSE [device |-> dev, calls |-> <<>>]

handle_motion_events(dev, time, read) ==
    IF dev.pending
    THEN [device |-> [dx |-> 0, dy |-> 0, pending |-> FALSE],
          calls |-> <<Callback("relative_motion", time,
                               wl_fixed_from_int(dev.dx),
                               wl_fixed_from_int(dev.dy), read)>>]
    ELSE [device |-> dev, calls |-> <<>>]

\* The input_event a pass of the loop of handle_data holds once the read and,
\* on LIBEVDEV_READ_STATUS_SYNC, the re-fetch loop are done: each re-fetch
\* overwrites the event, so the last synced event is left.
read_event(read) ==
    IF read.status = "SYNC" /\ read.synced # <<>>
    THEN read.synced[Len(read.synced)]
    ELSE read.event

\* The dispatch through event_handlers[], which has entries for EV_KEY,
\* EV_REL and EV_ABS only.
dispatch_event(dev, event, garbage, read) ==
    IF event.type = EV_KEY
    THEN [device |-> dev, calls |-> handle_key_event(event, read)]
    ELSE IF event.type = EV_REL
    THEN handle_rel_event(dev, event, garbage, read)
    ELSE IF event.type = EV_ABS
    THEN handle_abs_event(dev, event)
    ELSE [device |-> dev, calls |-> <<>>]

\* One pass of the loop of handle_data, dispatching before it flushes.
handle_read_late(dev, read, garbage, i) ==
    LET event == read_event(read)
        handled == dispatch_event(dev, event, garbage, i)
        flushed == IF ~is_motion_event(event)
                   THEN handle_motion_events(handled.device,
                                             timeval_to_msec(event.time), i)
                   ELSE [device |-> handled.device, calls |-> <<>>]
    IN  [device |-> flushed.device, calls |-> handled.calls \o flushed.calls]

\* One pass of the loop of handle_data for a read that is not -EAGAIN.
handle_read(dev, read, garbage, i) ==
    LET event == read_event(read)
        flushed == IF ~is_motion_event(event)
                   THEN handle_motion_events(dev, timeval_to_msec(event.time),
                                             i)
                   ELSE [device |-> dev, calls |-> <<>>]
        handled == dispatch_event(flushed.device, event, garbage, i)
    IN  [device |-> handled.device, calls |-> flushed.calls \o handled.calls]

\* handle_data from read i on; after the last read libevdev_next_event
\* returns -EAGAIN and the pending motion is flushed with the time of the
\* last event held, which is uninitialized when nothing was read.
RECURSIVE handle_data_from(_, _, _, _, _, _)
handle_data_from(i, dev, reads, garbage, calls, trace) ==
    IF i > Len(reads)
    THEN LET time == IF reads = <<>>
                     THEN garbage.time
                     ELSE timeval_to_msec(read_event(reads[Len(reads)]).time)
             flushed == handle_motion_events(dev, time, i)
         IN  [device |-> flushed.device, calls |-> calls \o flushed.calls,
              trace |-> trace]
    ELSE LET r == handle_read(dev, reads[i], garbage, i)
         IN  handle_data_from(i + 1, r.device, reads, garbage,
                              calls \o r.calls, Append(trace, r.device))

handle_data(dev, reads, garbage) ==
    handle_data_from(1, dev, reads, garbage, <<>>, <<>>)

(***************************************************************************)
(* swc_compositor_initialize.  `fails` is the set of the stages whose      *)
(* initializer fails when called.  A component is named by its stage; the  *)
(* last stage, the creation of the outputs, has no finalizer of its own.   *)
(***************************************************************************)
Stages == <<"udev", "tty", "seat", "drm", "renderer", "outputs">>

NotStarted ==
    [done |-> FALSE, fails |-> {}, result |-> FALSE, constructed |-> <<>>,
     finalized |-> <<>>]

\* The finalizers run from the error label of stage k on, falling through
\* the labels below it: error_base, below error_udev, runs none.
RECURSIVE unwind(_)
unwind(k) == IF k = 0 THEN <<>> ELSE <<Stages[k]>> \o unwind(k - 1)

\* The gotos with the failure of the renderer jumping to error_seat.
error_label_skip(i) == IF Stages[i] = "renderer" THEN i - 2 ELSE i - 1

\* The label the failure branch of stage i jumps to, as the index of the
\* stage whose finalizer the label starts with (0 for error_base).
error_label(i) == i - 1

RECURSIVE initialize_from(_, _, _)
initialize_from(i, fails, constructed) ==
    IF i > Len(Stages)
    THEN [done |-> TRUE, fails |-> fails, result |-> TRUE,
          constructed |-> constructed, finalized |-> <<>>]
    ELSE IF Stages[i] \in fails
    THEN [done |-> TRUE, fails |-> fails, result |-> FALSE,
          constructed |-> constructed,
          finalized |-> unwind(error_label(i))]
    ELSE initialize_from(i + 1, fails, Append(constructed, Stages[i]))

swc_compositor_initialize(fails) == initialize_from(1, fails, <<>>)

(***************************************************************************)
(* swc_compositor_schedule_update: `added` is the number of idle tasks the *)
(* call adds to the event loop.                                            *)
(***************************************************************************)
\* swc_compositor_schedule_update adding a task whenever it sets a bit.
swc_compositor_schedule_update_each(c, output) ==
    IF output \in c.scheduled_updates
    THEN [compositor |-> c, added |-> 0]
    ELSE [compositor |->
              [c EXCEPT !.scheduled_updates = c.scheduled_updates
                                                  \cup {output}],
          added |-> 1]

\* swc_compositor_schedule_update without the early return, testing the mask
\* after the bit is set.
swc_compositor_schedule_update_late(c, output) ==
    LET c2 == [c EXCEPT !.scheduled_updates = c.scheduled_updates
                                                  \cup {output}]
        update_scheduled == c2.scheduled_updates \ {output} # {}
    IN  [compositor |-> c2, added |-> IF ~update_scheduled THEN 1 ELSE 0]

swc_compositor_schedule_update(c, output) ==
    LET update_scheduled == c.scheduled_updates # {}
    IN  IF output \in c.scheduled_updates
        THEN [compositor |-> c, added |-> 0]
        ELSE [compositor |->
                  [c EXCEPT !.scheduled_updates = c.scheduled_updates
                                                      \cup {output}],
              added |-> IF ~update_scheduled THEN 1 ELSE 0]

(***************************************************************************)
(* The state after swc_compositor_initialize, with the outputs the DRM     *)
(* session created and the surfaces the clients attached.                  *)
(***************************************************************************)
Init ==
    /\ compositor = [scheduled_updates |-> {}, pending_flips |-> {},
                     damage |-> {}, opaque |-> {}]
    /\ \E stride \in OutputStrides :
           outputs = [o \in Outputs |->
                          [geometry |-> output_geometry(o, stride),
                           previous_damage |-> {}]]
    /\ surfaces = [i \in 1..NumSurfaces |-> i]
    /\ surface = [s \in SurfaceIds |-> surface_new(s)]
    /\ idle = 0
    /\ master = TRUE
    /\ inflight = {}
    /\ repaints = <<>>
    /\ frame_callbacks = <<>>
    /\ last = NoEvent
    /\ prev = NoEvent
    /\ key_bindings = builtin_key_bindings
    /\ key_handled = [swallowed |-> FALSE, calls |-> <<>>]
    /\ device = swc_evdev_device_new
    /\ kernel = <<>>
    /\ dispatched = NoDispatch
    /\ startup = NotStarted

Flipped(calls) == {calls[i].output : i \in {j \in 1..Len(calls) : calls[j].flipped}}

\* A caller (a surface commit) requests an update of `output`.
ScheduleUpdateStep(output) ==
    LET r == swc_compositor_schedule_update(compositor, output)
    IN  /\ idle + r.added <= MaxIdle
        /\ compositor' = r.compositor
        /\ idle' = idle + r.added
        /\ repaints' = <<>>
        /\ frame_callbacks' = <<>>
        /\ UNCHANGED <<outputs, surfaces, surface, master, inflight>>
        /\ UNCHANGED input_vars

\* The event loop runs one perform_update task of its idle queue; `accept` is
\* the set of outputs whose flip the hardware accepts.
IdleUpdateStep(accept) ==
    /\ idle > 0
    /\ LET r == perform_update(compositor, outputs, surfaces, surface,
                               master, inflight, accept)
       IN  /\ compositor' = r.compositor
           /\ outputs' = r.outputs
           /\ surface' = r.surface
           /\ repaints' = r.calls
           /\ inflight' = inflight \cup Flipped(r.calls)
    /\ idle' = idle - 1
    /\ frame_callbacks' = <<>>
    /\ UNCHANGED <<surfaces, master>>
    /\ UNCHANGED input_vars

\* The DRM session delivers the completion of the flip in flight on `output`.
PageFlipStep(output, time, accept) ==
    /\ output \in inflight
    /\ LET r == handle_drm_event(compositor, outputs, surfaces, surface,
                                 master, inflight \ {output}, accept,
                                 output, time)
       IN  /\ compositor' = r.compositor
           /\ outputs' = r.outputs
           /\ surface' = r.surface
           /\ repaints' = r.calls
           /\ frame_callbacks' = r.frame_callbacks
           /\ inflight' = (inflight \ {output}) \cup Flipped(r.calls)
    /\ UNCHANGED <<surfaces, idle, master>>
    /\ UNCHANGED input_vars

\* The TTY emits VT_LEAVE while active and VT_ENTER while inactive.
TtyEventStep(type) ==
    /\ type = IF master THEN "VT_LEAVE" ELSE "VT_ENTER"
    /\ LET r == handle_tty_event(compositor, master, type)
       IN  /\ compositor' = r.compositor
           /\ master' = r.master
    /\ repaints' = <<>>
    /\ frame_callbacks' = <<>>
    /\ UNCHANGED <<outputs, surfaces, surface, idle, inflight>>
    /\ UNCHANGED input_vars

\* A client damages the whole of surface `id` and commits.
SurfaceDamageStep(id) ==
    /\ id \in DOMAIN surface
    /\ surface[id].damage = {}
    /\ surface' = [surface EXCEPT ![id].damage = surface_full(id)]
    /\ repaints' = <<>>
    /\ frame_callbacks' = <<>>
    /\ UNCHANGED <<compositor, outputs, surfaces, idle, master, inflight>>
    /\ UNCHANGED input_vars

\* The border of surface `id` changes.
BorderDamageStep(id) ==
    /\ id \in DOMAIN surface
    /\ ~surface[id].border_damaged
    /\ surface' = [surface EXCEPT ![id].border_damaged = TRUE]
    /\ repaints' = <<>>
    /\ frame_callbacks' = <<>>
    /\ UNCHANGED <<compositor, outputs, surfaces, idle, master, inflight>>
    /\ UNCHANGED input_vars

\* The outputs a perform_update would flip, the hardware willing.
Updatable(pending) == IF master THEN compositor.scheduled_updates \ pending
                                ELSE {}

\* The history of dispatched events: the last two.
Log(event) == prev' = last /\ last' = event

ScheduleUpdate(output) ==
    ScheduleUpdateStep(output) /\ Log(Event("schedule_update", output, 0))

IdleUpdate(accept) ==
    IdleUpdateStep(accept) /\ Log(Event("perform_update", 0, 0))

PageFlip(output, time, accept) ==
    PageFlipStep(output, time, accept)
        /\ Log(Event("PAGE_FLIP", output, time))

TtyEvent(type) == TtyEventStep(type) /\ Log(Event(type, 0, 0))

Next ==
    \/ \E output \in Outputs : ScheduleUpdate(output)
    \/ \E accept \in SUBSET Updatable(compositor.pending_flips) :
           IdleUpdate(accept)
    \/ \E output \in Outputs, time \in Times :
           \E accept \in SUBSET Updatable(compositor.pending_flips \ {output}) :
               PageFlip(output, time, accept)
    \/ \E type \in {"VT_ENTER", "VT_LEAVE"} : TtyEvent(type)

Spec == Init /\ [][Next]_vars

(***************************************************************************)
(* The same program with clients that damage their surfaces, on an active  *)
(* VT whose hardware accepts every flip; the history of events is not      *)
(* kept.                                                                   *)
(***************************************************************************)
ScheduleUpdateD(output) == ScheduleUpdateStep(output) /\ UNCHANGED <<last, prev>>

IdleUpdateD == IdleUpdateStep(Outputs) /\ UNCHANGED <<last, prev>>

PageFlipD(output, time) ==
    PageFlipStep(output, time, Outputs) /\ UNCHANGED <<last, prev>>

SurfaceDamageD(id) == SurfaceDamageStep(id) /\ UNCHANGED <<last, prev>>

BorderDamageD(id) == BorderDamageStep(id) /\ UNCHANGED <<last, prev>>

NextDamage ==
    \/ \E output \in Outputs : ScheduleUpdateD(output)
    \/ IdleUpdateD
    \/ \E output \in Outputs, time \in Times : PageFlipD(output, time)
    \/ \E id \in SurfaceIds : SurfaceDamageD(id)
    \/ \E id \in SurfaceIds : BorderDamageD(id)

SpecDamage == Init /\ [][NextDamage]_vars

(***************************************************************************)
(* The same program with clients that create and destroy surfaces and      *)
(* commit opaque regions, on an active VT whose hardware accepts every     *)
(* flip; the history of events is not kept.  The updates are requested for *)
(* the first output, and the flips complete at time 1.                     *)
(***************************************************************************)
opaque_regions(id) == {{}, surface_full(id), region_rect(0, 0, 1, 1)}

\* The on-attach hook of the surface class inserts the new surface at the top
\* of compositor->surfaces.
SurfaceAttachStep(id) ==
    /\ \A i \in 1..Len(surfaces) : surfaces[i] # id
    /\ surfaces' = <<id>> \o surfaces
    /\ repaints' = <<>>
    /\ frame_callbacks' = <<>>
    /\ UNCHANGED <<compositor, outputs, surface, idle, master, inflight>>
    /\ UNCHANGED input_vars

\* handle_surface_destroy: the surface leaves the list and is freed; a later
\* surface of the same id starts from a new state.
handle_surface_destroy(list, id) ==
    SelectSeq(list, LAMBDA other : other # id)

SurfaceDestroyStep(id) ==
    /\ \E i \in 1..Len(surfaces) : surfaces[i] = id
    /\ surfaces' = handle_surface_destroy(surfaces, id)
    /\ surface' = [surface EXCEPT ![id] = surface_new(id)]
    /\ repaints' = <<>>
    /\ frame_callbacks' = <<>>
    /\ UNCHANGED <<compositor, outputs, idle, master, inflight>>
    /\ UNCHANGED input_vars

\* A client commits the opaque region of a listed surface.
SurfaceOpaqueStep(id, region) ==
    /\ \E i \in 1..Len(surfaces) : surfaces[i] = id
    /\ surface[id].opaque # region
    /\ surface' = [surface EXCEPT ![id].opaque = region]
    /\ repaints' = <<>>
    /\ frame_callbacks' = <<>>
    /\ UNCHANGED <<compositor, outputs, surfaces, idle, master, inflight>>
    /\ UNCHANGED input_vars

SurfaceAttachD(id) == SurfaceAttachStep(id) /\ UNCHANGED <<last, prev>>

SurfaceDestroyD(id) == SurfaceDestroyStep(id) /\ UNCHANGED <<last, prev>>

SurfaceOpaqueD(id, region) ==
    SurfaceOpaqueStep(id, region) /\ UNCHANGED <<last, prev>>

NextCalc ==
    \/ ScheduleUpdateD(1)
    \/ IdleUpdateD
    \/ \E output \in Outputs : PageFlipD(output, 1)
    \/ \E id \in SurfaceIds : SurfaceAttachD(id)
    \/ \E id \in SurfaceIds : SurfaceDestroyD(id)
    \/ \E id \in SurfaceIds : \E region \in opaque_regions(id) :
           SurfaceOpaqueD(id, region)

SpecCalc == Init /\ [][NextCalc]_vars

(***************************************************************************)
(* The keyboard: clients of the library add key bindings and the seat      *)
(* reports keys.  xkb supplies the key-symbol of the key, the effective    *)
(* modifier mask and the modifiers the key consumes.                       *)
(***************************************************************************)
\* The modifier masks of the keys pressed in the runs.
KeyMasks == {{}, {"ctrl"}, {"ctrl", "shift"}, {"ctrl", "alt"}, {"super"},
             {"shift", "lock"}}

AddKeyBinding(modifiers, value) ==
    /\ Len(key_bindings) < Len(builtin_key_bindings) + MaxBindings
    /\ key_bindings' = swc_compositor_add_key_binding(key_bindings, modifiers,
                                                      value, "client")
    /\ UNCHANGED <<key_handled, evdev_vars, startup, frame_vars>>

HandleKey(time, keysym, effective, consumed, state) ==
    /\ key_handled' = handle_key(key_bindings, time, keysym, effective,
                                 consumed, state)
    /\ UNCHANGED <<key_bindings, evdev_vars, startup, frame_vars>>

NextKey ==
    \/ \E modifiers \in BindingModifiers, value \in Keysyms :
           AddKeyBinding(modifiers, value)
    \/ \E time \in Times, keysym \in Keysyms, effective \in KeyMasks :
           \E consumed \in SUBSET {"shift"},
              state \in {"PRESSED", "RELEASED"} :
               HandleKey(time, keysym, effective, consumed, state)

SpecKey == Init /\ [][NextKey]_vars

(***************************************************************************)
(* The evdev device: the kernel queues events on the fd and the event loop *)
(* calls handle_data, which drains them.                                   *)
(***************************************************************************)
InputEvent(type, code, value, time) ==
    [type |-> type, code |-> code, value |-> value, time |-> time]

EarlyTime == [sec |-> 1, usec |-> 500000]
LateTime == [sec |-> 4294968, usec |-> 999]

InputEvents ==
    {InputEvent(EV_REL, REL_X, 1, EarlyTime),
     InputEvent(EV_REL, REL_X, -2, EarlyTime),
     InputEvent(EV_REL, REL_Y, 3, EarlyTime),
     InputEvent(EV_REL, REL_WHEEL, 1, EarlyTime),
     InputEvent(EV_REL, REL_WHEEL, -2, LateTime),
     InputEvent(EV_REL, REL_HWHEEL, 1, EarlyTime),
     InputEvent(EV_REL, REL_DIAL, 1, EarlyTime),
     InputEvent(EV_KEY, KEY_A, 1, LateTime),
     InputEvent(EV_KEY, BTN_LEFT, 0, LateTime),
     InputEvent(EV_ABS, ABS_X, 5, EarlyTime),
     InputEvent(EV_SYN, SYN_REPORT, 0, EarlyTime),
     InputEvent(EV_MSC, 4, 0, EarlyTime)}

\* What libevdev_next_event returns before -EAGAIN: an event, or the
\* SYN_DROPPED event with LIBEVDEV_READ_STATUS_SYNC, after which the
\* re-fetches return the events of `synced`.
Reads ==
    {[status |-> "SUCCESS", event |-> e, synced |-> <<>>] : e \in InputEvents}
        \cup {[status |-> "SYNC",
               event |-> InputEvent(EV_SYN, SYN_DROPPED, 0, EarlyTime),
               synced |-> s] :
                  s \in {<<>>,
                         <<InputEvent(EV_KEY, KEY_A, 0, LateTime),
                           InputEvent(EV_SYN, SYN_REPORT, 0, LateTime)>>}}

\* Values the uninitialized locals of handle_rel_event and handle_data hold.
Garbage ==
    {[axis |-> WL_POINTER_AXIS_VERTICAL_SCROLL, amount |-> to_uint32(0),
      time |-> to_uint32(0)],
     [axis |-> 7, amount |-> to_uint32(-2560), time |-> to_uint32(77)]}

KernelEvent(read) ==
    /\ Len(kernel) < MaxReads
    /\ kernel' = Append(kernel, read)
    /\ dispatched' = NoDispatch
    /\ UNCHANGED <<device, seat_vars, startup, frame_vars>>

HandleData(garbage) ==
    LET r == handle_data(device, kernel, garbage)
    IN  /\ device' = r.device
        /\ kernel' = <<>>
        /\ dispatched' = [reads |-> kernel, calls |-> r.calls,
                          trace |-> r.trace]
        /\ UNCHANGED <<seat_vars, startup, frame_vars>>

NextEvdev ==
    \/ \E read \in Reads : KernelEvent(read)
    \/ \E garbage \in Garbage : HandleData(garbage)

SpecEvdev == Init /\ [][NextEvdev]_vars

(***************************************************************************)
(* The start of the compositor in an environment where some initializers   *)
(* fail.                                                                   *)
(***************************************************************************)
Initialize(fails) ==
    /\ ~startup.done
    /\ startup' = swc_compositor_initialize(fails)
    /\ UNCHANGED <<seat_vars, evdev_vars, frame_vars>>

NextInit == \E fails \in SUBSET {Stages[i] : i \in 1..Len(Stages)} :
                Initialize(fails)

SpecInit == Init /\ [][NextInit]_vars

(***************************************************************************)
(* The program without flip completions: schedule_update calls, idle runs  *)
(* and VT switches only.                                                   *)
(***************************************************************************)
NextNoFlip ==
    \/ \E output \in Outputs : ScheduleUpdate(output)
    \/ \E accept \in SUBSET Updatable(compositor.pending_flips) :
           IdleUpdate(accept)
    \/ \E type \in {"VT_ENTER", "VT_LEAVE"} : TtyEvent(type)

SpecNoFlip == Init /\ [][NextNoFlip]_vars

(***************************************************************************)
(* The program on an active VT whose hardware accepts every flip.          *)
(***************************************************************************)
NextFlipsOk ==
    \/ \E output \in Outputs : ScheduleUpdate(output)
    \/ IdleUpdate(Outputs)
    \/ \E output \in Outputs, time \in Times : PageFlip(output, time, Outputs)

SpecFlipsOk == Init /\ [][NextFlipsOk]_vars

(***************************************************************************)
(* The program on an active VT whose hardware may refuse a flip, under the *)
(* event loop's guarantees: an enqueued idle task runs, and a submitted    *)
(* flip completes with a PAGE_FLIP event.                                  *)
(***************************************************************************)
NextLive ==
    \/ \E output \in Outputs : ScheduleUpdate(output)
    \/ \E accept \in SUBSET Updatable(compositor.pending_flips) :
           IdleUpdate(accept)
    \/ \E output \in Outputs, time \in Times :
           \E accept \in SUBSET Updatable(compositor.pending_flips \ {output}) :
               PageFlip(output, time, accept)

\* Under NextLive the steps that take a task off the idle queue are the runs
\* of perform_update from it.
IdleTaskRuns == idle > 0 /\ idle' = idle - 1

\* Under NextLive the steps that dispatch a PAGE_FLIP event of `output` are
\* the completions of the flip its plane has in flight.
FlipCompletes(output) ==
    \E time \in Times :
        output \in inflight /\ last' = Event("PAGE_FLIP", output, time)

SpecLive ==
    /\ Init
    /\ [][NextLive]_vars
    /\ WF_idle(IdleTaskRuns)
    /\ \A output \in Outputs : WF_last(FlipCompletes(output))

(***************************************************************************)
(* Properties                                                              *)
(***************************************************************************)
Repainted(calls) == {calls[i].output : i \in 1..Len(calls)}

FailedFlips(calls) == Repainted(calls) \ Flipped(calls)

\* The damage a damage calculation in the current state accumulates: the
\* compositor damage, the damage of every listed surface in global
\* coordinates, and the border of every surface whose border is damaged.
AccumulatedDamage ==
    compositor.damage
        \cup UNION {region_translate(surface[surfaces[i]].damage,
                                     surface[surfaces[i]].geometry.x,
                                     surface[surfaces[i]].geometry.y) :
                        i \in 1..Len(surfaces)}
        \cup UNION {region_extents(surface[surfaces[i]].extents)
                        \ geometry_rect(surface[surfaces[i]].geometry) :
                        i \in {j \in 1..Len(surfaces) :
                                   surface[surfaces[j]].border_damaged}}

ScreenArea(U) == UNION {geometry_rect(outputs[o].geometry) : o \in U}

\* C1: an output whose plane flip failed in the perform_update just run keeps
\* its bit in scheduled_updates and is not recorded in pending_flips.
C1_FailedFlipStaysScheduled ==
    \A o \in FailedFlips(repaints) :
        /\ o \in compositor.scheduled_updates
        /\ o \notin compositor.pending_flips

\* C2: every bit of pending_flips belongs to an existing output whose plane has
\* a flip that was submitted successfully and has not completed.
C2_PendingFlipsOutstanding ==
    /\ compositor.pending_flips \subseteq Outputs
    /\ compositor.pending_flips \subseteq inflight

\* C3: a step sends frame callbacks iff it is a PAGE_FLIP whose clearing of the
\* output's bit takes pending_flips from non-zero to zero, and then it sends
\* exactly one per listed surface, in list order, with the event's time.
C3_FrameCallbacksOnLastFlip ==
    [][frame_callbacks' =
           IF /\ last'.op = "PAGE_FLIP"
              /\ compositor.pending_flips # {}
              /\ compositor.pending_flips \ {last'.arg} = {}
           THEN [i \in 1..Len(surfaces) |->
                     [surface |-> surfaces[i], time |-> last'.time]]
           ELSE <<>>]_vars

C3_Witness ==
    /\ last.op = "PAGE_FLIP"
    /\ Len(frame_callbacks) = NumSurfaces
    /\ \A i \in 1..NumSurfaces : frame_callbacks[i].time = last.time

\* C4: while the DRM master is dropped (after VT_LEAVE, before the next
\* VT_ENTER) no step calls plane_flip.
C4_NoFlipWhileInactive == ~master => repaints = <<>>

\* C5: after VT_ENTER is handled the master is held, every output's bit is set
\* in scheduled_updates and a perform_update task is enqueued.
C5_EnterSchedulesAll ==
    last.op = "VT_ENTER" =>
        /\ master
        /\ compositor.scheduled_updates = Outputs
        /\ idle > 0

\* C6: handling VT_LEAVE and then VT_ENTER leaves pending_flips as it was.
C6_LeaveEnterKeepsPendingFlips ==
    LET left == handle_tty_event(compositor, master, "VT_LEAVE")
        entered == handle_tty_event(left.compositor, left.master, "VT_ENTER")
    IN  entered.compositor.pending_flips = compositor.pending_flips

C6_Witness ==
    /\ prev.op = "VT_LEAVE"
    /\ last.op = "VT_ENTER"
    /\ compositor.pending_flips # {}

\* C7: with no PAGE_FLIP completion, at most one perform_update task is on the
\* idle queue.
C7_AtMostOneIdleTask == idle <= 1

C7_Witness ==
    /\ prev.op = "schedule_update"
    /\ last.op = "schedule_update"
    /\ prev.arg # last.arg
    /\ {prev.arg, last.arg} \subseteq compositor.scheduled_updates
    /\ idle = 1

\* C8: a second schedule_update(o) right after the first changes neither
\* scheduled_updates nor pending_flips and adds no idle task.
C8_ScheduleUpdateIdempotent ==
    \A o \in Outputs :
        LET once == swc_compositor_schedule_update(compositor, o)
            twice == swc_compositor_schedule_update(once.compositor, o)
        IN  /\ twice.compositor.scheduled_updates
                   = once.compositor.scheduled_updates
            /\ twice.compositor.pending_flips = once.compositor.pending_flips
            /\ twice.added = 0

C8_Witness ==
    /\ prev.op = "schedule_update"
    /\ last = prev
    /\ idle = 1

\* C9: a perform_update that repaints the outputs U leaves in
\* compositor.damage exactly the accumulated damage outside the geometries of
\* U: nothing inside them, everything outside them.
C9_RepaintSubtractsOutputArea ==
    [][repaints' # <<>> =>
           compositor'.damage
               = AccumulatedDamage \ ScreenArea(Repainted(repaints'))]_vars

C9_Witness ==
    /\ repaints # <<>>
    /\ compositor.damage # {}
    /\ compositor.damage \cap ScreenArea(Repainted(repaints)) = {}
    /\ compositor.damage \cap ScreenArea(Outputs) # {}

\* C10: every output a perform_update repaints has afterwards as
\* previous_damage the accumulated damage clipped to its geometry.
C10_PreviousDamageIsFrameDamage ==
    [][\A o \in Repainted(repaints') :
           outputs'[o].previous_damage
               = AccumulatedDamage \cap geometry_rect(outputs[o].geometry)]_vars

\* The translated opaque regions of the surfaces at positions `range` of the
\* list.
ListedOpaque(list, surf, range) ==
    UNION {region_translate(surf[list[i]].opaque, surf[list[i]].geometry.x,
                            surf[list[i]].geometry.y) : i \in range}

\* C11: whatever compositor.opaque held before (areas of earlier frames, of
\* surfaces since destroyed or changed), after calculate_damage it is the union
\* of the translated opaque regions of the surfaces now listed, whatever
\* their z-order.
C11_OpaqueIsUnionOfListed ==
    LET r == calculate_damage(compositor, surfaces, surface)
    IN  r.compositor.opaque
            = ListedOpaque(surfaces, surface, 1..Len(surfaces))

C11_Witness ==
    /\ compositor.scheduled_updates # {}
    /\ idle > 0
    /\ Len(surfaces) = 1
    /\ ~(compositor.opaque
             \subseteq ListedOpaque(surfaces, surface, 1..Len(surfaces)))
    /\ ListedOpaque(surfaces, surface, 1..Len(surfaces)) # {}

\* C12: after calculate_damage the clip of each listed surface is the union of
\* the translated opaque regions of the surfaces strictly above it in the
\* list: never its own opaque region or that of a lower surface, and empty
\* for the topmost surface.
C12_ClipIsOpaqueAbove ==
    LET r == calculate_damage(compositor, surfaces, surface)
    IN  \A i \in 1..Len(surfaces) :
            r.surface[surfaces[i]].clip
                = ListedOpaque(surfaces, surface, 1..(i - 1))

C12_Witness ==
    /\ compositor.scheduled_updates # {}
    /\ idle > 0
    /\ Len(surfaces) = 2
    /\ surface[surfaces[1]].opaque # {}
    /\ surface[surfaces[2]].opaque # {}
    /\ surface[surfaces[2]].clip # {}
    /\ surface[surfaces[2]].clip
           # ListedOpaque(surfaces, surface, 1..1)

\* The modifier set of a key event: the swc modifiers among the effective
\* xkb modifiers the key does not consume.
EffectiveModifiers(effective, consumed) ==
    {m \in {"CTRL", "ALT", "LOGO", "SHIFT"} :
        \E x \in effective \ consumed :
            <<x, m>> \in {<<"ctrl", "CTRL">>, <<"alt", "ALT">>,
                          <<"super", "LOGO">>, <<"shift", "SHIFT">>}}

Matching(bindings, keysym, modifiers) ==
    {i \in 1..Len(bindings) :
        /\ bindings[i].value = keysym
        /\ bindings[i].modifiers \in {SWC_MOD_ANY, modifiers}}

\* C13: for every key event on every binding list reached, a press calls
\* once the handler of the first binding in insertion order whose value is
\* the key-symbol and whose modifiers are ANY or equal the effective
\* modifiers without the consumed ones, and swallows the event; with no such
\* binding, or on a release, no handler is called and the event is not
\* swallowed.
C13_FirstMatchingBindingHandles ==
    \A time \in Times, keysym \in Keysyms, effective \in SUBSET XkbMods :
        \A consumed \in SUBSET {"shift", "ctrl"},
           state \in {"PRESSED", "RELEASED"} :
            LET r == handle_key(key_bindings, time, keysym, effective,
                                consumed, state)
                M == Matching(key_bindings, keysym,
                              EffectiveModifiers(effective, consumed))
            IN  IF state = "PRESSED" /\ M # {}
                THEN /\ r.swallowed
                     /\ Len(r.calls) = 1
                     /\ r.calls[1].binding \in M
                     /\ \A i \in M : r.calls[1].binding <= i
                     /\ r.calls[1].value = keysym
                ELSE /\ ~r.swallowed
                     /\ r.calls = <<>>

C13_Witness ==
    /\ key_handled.swallowed
    /\ Len(key_handled.calls) = 1
    /\ key_handled.calls[1].binding = 3
    /\ key_handled.calls[1].value = "BackSpace"
    /\ key_bindings[3].modifiers = {"CTRL"}

\* An event other than REL_X, REL_Y, ABS_X and ABS_Y.
NonMotion(event) ==
    /\ ~(event.type = EV_REL /\ event.code \in {REL_X, REL_Y})
    /\ ~(event.type = EV_ABS /\ event.code \in {ABS_X, ABS_Y})

\* The events the last handle_data processed, one per read.
Processed == [i \in 1..Len(dispatched.reads) |-> read_event(dispatched.reads[i])]

\* The callbacks the last handle_data made while processing read i.
CallsOf(i) == SelectSeq(dispatched.calls, LAMBDA c : c.read = i)

\* C14: after each processed event that is not a motion event, and after
\* every completed handle_data, motion.rel.pending is false and the dx and dy
\* accumulators are zero.
C14_MotionFlushed ==
    /\ device = [dx |-> 0, dy |-> 0, pending |-> FALSE]
    /\ \A i \in 1..Len(Processed) :
           NonMotion(Processed[i]) =>
               dispatched.trace[i] = [dx |-> 0, dy |-> 0, pending |-> FALSE]

C14_Witness ==
    /\ Len(Processed) = 3
    /\ Processed[1].type = EV_REL /\ Processed[1].code = REL_X
    /\ Processed[2].type = EV_KEY
    /\ Processed[3].type = EV_REL /\ Processed[3].code = REL_Y
    /\ dispatched.trace[1].pending
    /\ ~dispatched.trace[2].pending
    /\ dispatched.trace[3].pending
    /\ ~device.pending

\* C15: a REL_WHEEL event with value v at (sec, usec) makes exactly one axis
\* callback, with time sec * 1000 + usec / 1000 modulo 2^32, the vertical
\* axis and amount -10 * v * 256; a REL_HWHEEL event one with the horizontal
\* axis and amount 10 * v * 256.  Value 1 at (1, 500000) gives
\* (1500, vertical, -2560); the time (4294968, 999) wraps to 704.
C15_WheelAxisCallback ==
    \A i \in 1..Len(Processed) :
        LET e == Processed[i]
            own == SelectSeq(CallsOf(i), LAMBDA c : c.op = "axis")
            msec == e.time.sec * 1000 + e.time.usec \div 1000
        IN  e.type = EV_REL /\ e.code \in {REL_WHEEL, REL_HWHEEL} =>
                /\ Len(own) = 1
                /\ e.time.sec < 2000000 =>
                       own[1].time = [hi |-> msec \div 65536,
                                      lo |-> msec % 65536]
                /\ e.time = [sec |-> 4294968, usec |-> 999] =>
                       own[1].time = [hi |-> 0, lo |-> 704]
                /\ e.code = REL_WHEEL =>
                       /\ own[1].arg1 = WL_POINTER_AXIS_VERTICAL_SCROLL
                       /\ own[1].arg2 = (0 - 10) * e.value * 256
                /\ e.code = REL_HWHEEL =>
                       /\ own[1].arg1 = WL_POINTER_AXIS_HORIZONTAL_SCROLL
                       /\ own[1].arg2 = 10 * e.value * 256
                /\ /\ e.code = REL_WHEEL
                   /\ e.value = 1
                   /\ e.time = [sec |-> 1, usec |-> 500000]
                   => /\ own[1].time = [hi |-> 0, lo |-> 1500]
                      /\ own[1].arg1 = 0
                      /\ own[1].arg2 = -2560

C15_Witness ==
    /\ \E i \in 1..Len(dispatched.calls) :
           /\ dispatched.calls[i].op = "axis"
           /\ dispatched.calls[i].time = [hi |-> 0, lo |-> 1500]
           /\ dispatched.calls[i].arg1 = 0
           /\ dispatched.calls[i].arg2 = -2560
    /\ \E i \in 1..Len(dispatched.calls) :
           /\ dispatched.calls[i].op = "axis"
           /\ dispatched.calls[i].time = [hi |-> 0, lo |-> 704]
           /\ dispatched.calls[i].arg2 = 5120

\* The reads before read i and after the last non-motion event before it:
\* those whose relative motion is pending when read i is processed.
Unflushed(i) ==
    {j \in 1..(i - 1) : \A k \in j..(i - 1) : ~NonMotion(Processed[k])}

RECURSIVE SumOf(_, _)
SumOf(code, js) ==
    IF js = {}
    THEN 0
    ELSE LET j == CHOOSE x \in js : TRUE
         IN  (IF Processed[j].type = EV_REL /\ Processed[j].code = code
              THEN Processed[j].value
              ELSE 0) + SumOf(code, js \ {j})

\* C19: a non-motion event processed while relative motion is pending is
\* preceded by exactly one relative_motion callback, with the time of the
\* event and dx, dy the sums of the REL_X and REL_Y values since the last
\* flush times 256, before the event's own callback; with nothing pending
\* no relative_motion callback is made; motion events make no callback; and
\* the callbacks are made in the order of the reads.
C19_MotionFlushedBeforeEvent ==
    /\ \A i \in 1..Len(Processed) :
           LET e == Processed[i]
               own == CallsOf(i)
               pending == \E j \in Unflushed(i) :
                              /\ Processed[j].type = EV_REL
                              /\ Processed[j].code \in {REL_X, REL_Y}
           IN  /\ NonMotion(e) /\ pending =>
                      /\ Len(own) >= 1
                      /\ own[1].op = "relative_motion"
                      /\ own[1].time = timeval_to_msec(e.time)
                      /\ own[1].arg1 = 256 * SumOf(REL_X, Unflushed(i))
                      /\ own[1].arg2 = 256 * SumOf(REL_Y, Unflushed(i))
                      /\ \A k \in 2..Len(own) : own[k].op # "relative_motion"
               /\ NonMotion(e) /\ ~pending =>
                      \A k \in 1..Len(own) : own[k].op # "relative_motion"
               /\ ~NonMotion(e) => own = <<>>
               /\ e.type = EV_KEY =>
                      /\ own # <<>>
                      /\ own[Len(own)].op \in {"key", "button"}
                      /\ own[Len(own)].arg1 = e.code
    /\ \A k, l \in 1..Len(dispatched.calls) :
           k < l => dispatched.calls[k].read <= dispatched.calls[l].read

C19_Witness ==
    /\ Len(Processed) = 3
    /\ Len(dispatched.calls) = 2
    /\ dispatched.calls[1].op = "relative_motion"
    /\ dispatched.calls[1].arg1 = -256
    /\ dispatched.calls[1].arg2 = 0
    /\ dispatched.calls[1].read = 3
    /\ dispatched.calls[2].op = "button"

\* The stages before the first one that fails.
Constructed(fails) ==
    SelectSeq(Stages,
              LAMBDA s : \A i \in 1..Len(Stages) :
                             Stages[i] \in fails =>
                                 \E j \in 1..(i - 1) : Stages[j] = s)

\* C16: when an initializer fails, swc_compositor_initialize returns false
\* and has finalized the components constructed before the failing stage,
\* each once, in the reverse of the order of construction, and no other.
C16_FailureUnwindsInReverse ==
    startup.done /\ startup.fails # {} =>
        /\ ~startup.result
        /\ startup.constructed = Constructed(startup.fails)
        /\ Len(startup.finalized) = Len(startup.constructed)
        /\ \A i \in 1..Len(startup.constructed) :
               startup.finalized[i]
                   = startup.constructed[Len(startup.constructed) + 1 - i]

C16_Witness ==
    /\ startup.done
    /\ startup.fails = {"outputs"}
    /\ ~startup.result
    /\ startup.finalized = <<"renderer", "drm", "seat", "tty", "udev">>

\* C17: a step that runs perform_update repaints and flips exactly the
\* outputs U = scheduled_updates & ~pending_flips of its entry, each once, in
\* output order; afterwards pending_flips has gained U and scheduled_updates
\* has lost U.  No flip is called for an output whose bit is in pending_flips
\* or whose plane has a flip in flight.
C17_UpdateServicesUnflipped ==
    [][last'.op \in {"perform_update", "PAGE_FLIP"} =>
           LET entry == IF last'.op = "PAGE_FLIP"
                        THEN compositor.pending_flips \ {last'.arg}
                        ELSE compositor.pending_flips
               flying == IF last'.op = "PAGE_FLIP"
                         THEN inflight \ {last'.arg}
                         ELSE inflight
               U == compositor.scheduled_updates \ entry
           IN  /\ Repainted(repaints') = U
               /\ Len(repaints') = Cardinality(U)
               /\ compositor'.pending_flips = entry \cup U
               /\ compositor'.scheduled_updates
                      = compositor.scheduled_updates \ U
               /\ Repainted(repaints') \cap entry = {}
               /\ Repainted(repaints') \cap flying = {}]_vars

C17_Witness ==
    /\ last.op = "perform_update"
    /\ Len(repaints) = 1
    /\ compositor.scheduled_updates # {}
    /\ compositor.scheduled_updates \subseteq inflight
    /\ Repainted(repaints) \cap compositor.scheduled_updates = {}

\* C18: when a PAGE_FLIP completes the last pending flip, the handler sends
\* the frame callbacks of every listed surface whatever scheduled_updates
\* holds, and calls them before any plane flip of the perform_update it
\* re-enters.
C18_CallbacksBeforeReentry ==
    \A output \in inflight, time \in Times :
        \A accept \in SUBSET Outputs :
            LET r == handle_drm_event(compositor, outputs, surfaces, surface,
                                      master, inflight \ {output}, accept,
                                      output, time)
                U == compositor.scheduled_updates
            IN  compositor.pending_flips \ {output} = {} =>
                    /\ r.frame_callbacks
                           = [i \in 1..Len(surfaces) |->
                                  [surface |-> surfaces[i], time |-> time]]
                    /\ r.effects = frame_effects(r.frame_callbacks)
                                       \o flip_effects(r.calls)
                    /\ Repainted(r.calls) = U
                    /\ r.compositor.pending_flips = U

C18_Witness ==
    /\ last.op = "PAGE_FLIP"
    /\ Len(frame_callbacks) = NumSurfaces
    /\ repaints # <<>>
    /\ prev.op = "schedule_update"

\* C20: while every plane flip succeeds, scheduled outputs are never
\* stranded: if scheduled_updates is non-zero, a perform_update task is
\* enqueued or a flip is pending and in flight; and after any perform_update
\* every bit left in scheduled_updates is also set in pending_flips.
C20_NoLostWakeup ==
    /\ compositor.scheduled_updates # {} =>
           \/ idle > 0
           \/ compositor.pending_flips \cap inflight # {}
    /\ last.op \in {"perform_update", "PAGE_FLIP"} =>
           compositor.scheduled_updates \subseteq compositor.pending_flips

C20_Witness ==
    /\ last.op = "perform_update"
    /\ compositor.scheduled_updates # {}
    /\ idle = 0
    /\ compositor.scheduled_updates \subseteq inflight

\* C21: when idle tasks run and submitted flips complete, an output whose bit
\* is set in scheduled_updates eventually has it cleared, whether or not
\* plane flips fail.
C21_ScheduledEventuallyServiced ==
    \A o \in Outputs :
        (o \in compositor.scheduled_updates)
            ~> (o \notin compositor.scheduled_updates)

\* C22: in every interleaving of schedule_update calls, idle runs and
\* PAGE_FLIP completions, the idle queue holds no perform_update task or one.
C22_OneIdleTaskAcrossFlips == idle \in {0, 1}

\* C23: every axis callback of a handle_data is made for a processed EV_REL
\* event whose code is REL_WHEEL or REL_HWHEEL, and carries the axis and the
\* amount that event determines.
C23_AxisOnlyForWheels ==
    \A k \in 1..Len(dispatched.calls) :
        LET c == dispatched.calls[k]
        IN  c.op = "axis" =>
                /\ c.read \in 1..Len(Processed)
                /\ Processed[c.read].type = EV_REL
                /\ Processed[c.read].code \in {REL_WHEEL, REL_HWHEEL}
                /\ c.arg1 = IF Processed[c.read].code = REL_WHEEL
                            THEN WL_POINTER_AXIS_VERTICAL_SCROLL
                            ELSE WL_POINTER_AXIS_HORIZONTAL_SCROLL
                /\ c.arg2 = IF Processed[c.read].code = REL_WHEEL
                            THEN (0 - 10) * Processed[c.read].value * 256
                            ELSE 10 * Processed[c.read].value * 256

TypeOK ==
    /\ compositor.scheduled_updates \subseteq Outputs
    /\ compositor.pending_flips \subseteq Outputs
    /\ inflight \subseteq Outputs
    /\ idle \in 0..MaxIdle
    /\ master \in BOOLEAN

====
